---- MODULE Spec2Model ----
(***************************************************************************)
(* Model of the VCF decoder of src/snp/vcf.c: vcf_read_header,             *)
(* get_format_index, parse_haplotypes, parse_geno_probs and vcf_read_line. *)
(*                                                                         *)
(* A C string is a sequence of one-character strings.  A char pointer is   *)
(* NULL (the empty tuple) or Ptr(s) (a one-element tuple holding s).       *)
(* A loop of the source is a RECURSIVE operator; the value a statement     *)
(* computes is handed to the operator that models the statements after it. *)
(***************************************************************************)
EXTENDS Integers, Sequences, FiniteSets, TLC

VARIABLES
  head,        \* the file's leading lines: the '##' lines and the line that ends the header
  fpos,        \* number of lines util_gzgets_line has returned so far
  at_eof,      \* the line source has returned NULL
  hstate,      \* "START" before vcf_read_header, then "DONE" or "FATAL"
  vcf_info,    \* the VCFInfo structure
  warn_phase,  \* static int warn_phase of parse_haplotypes
  line,        \* the line the last call read, if it was vcf_read_line (NULL: none / end of stream)
  req,         \* which buffers the last call was given: [gp, hap]
  status,      \* outcome of the last call: "none", "ok", "eof", "fatal", "crash"; "parsed" for a decoder called on its own
  ret,         \* RetOf of what the last call returned; <<>> for none
  haplotypes,  \* the written part of the caller's haplotype buffer after the last call
  geno_probs,  \* the written part of the caller's probability buffer after the last call
  warns        \* warnings my_warn was given during the last call, in order

vars == <<head, fpos, at_eof, hstate, vcf_info, warn_phase, line, req, status,
          ret, haplotypes, geno_probs, warns>>

-----------------------------------------------------------------------------
(* Bounds of the model *)

MaxMeta == 2
MaxSamples == 2
MaxReads == 2
MaxHeaderReads == 1

-----------------------------------------------------------------------------
(* C strings and pointers *)

NULL == <<>>
Ptr(s) == <<s>>
Deref(p) == p[1]

TAB == "\t"
SPC == " "
Digits == {"0", "1", "2", "3", "4", "5", "6", "7", "8", "9"}

DigitVal(c) ==
  CASE c = "0" -> 0 [] c = "1" -> 1 [] c = "2" -> 2 [] c = "3" -> 3
    [] c = "4" -> 4 [] c = "5" -> 5 [] c = "6" -> 6 [] c = "7" -> 7
    [] c = "8" -> 8 [] c = "9" -> 9

Min(a, b) == IF a < b THEN a ELSE b

\* Position of the first character of s at or after i that is in delim; 0 if none.
FindDelim(s, i, delim) ==
  IF \A j \in i..Len(s) : s[j] \notin delim THEN 0
  ELSE CHOOSE j \in i..Len(s) :
         s[j] \in delim /\ \A m \in i..(j - 1) : s[m] \notin delim

\* The token before the delimiter at position i of s (0: no delimiter) and
\* the pointer past it.
SplitAt(s, i) ==
  IF i = 0 THEN [tok |-> Ptr(s), cur |-> NULL]
  ELSE [tok |-> Ptr(SubSeq(s, 1, i - 1)), cur |-> Ptr(SubSeq(s, i + 1, Len(s)))]

\* strsep(&cur, delim): the token and the new value of cur.
strsep(cur, delim) ==
  IF cur = NULL THEN [tok |-> NULL, cur |-> NULL]
  ELSE SplitAt(Deref(cur), FindDelim(Deref(cur), 1, delim))

\* strcmp(a, b) == 0
StrEq(a, b) == a = b

\* util_str_starts_with(str, start)
util_str_starts_with(str, start) ==
  /\ Len(str) >= Len(start)
  /\ SubSeq(str, 1, Len(start)) = start

\* util_strncpy(dest, src, n): at most n-1 characters are kept.
util_strncpy(src, n) == SubSeq(src, 1, Min(Len(src), n - 1))

\* Sizes of the bounded buffers of VCFInfo and of the decoders' scratch copies.
VCF_MAX_FORMAT == 1024
VCF_MAX_FIELD == 1024

\* The first position of s at or after i that holds no character of cs.
RunEnd(s, i, cs) ==
  IF i > Len(s) THEN i
  ELSE CHOOSE j \in i..(Len(s) + 1) :
         (j > Len(s) \/ s[j] \notin cs) /\ \A m \in i..(j - 1) : s[m] \in cs

\* isspace() in the "C" locale.  VT stands for the vertical tab, which a TLA+
\* string cannot spell.
VT == "VT"
WhiteSpace == {" ", "\t", "\n", "\f", "\r", VT}

\* The white space a conversion of sscanf skips first: the position of the
\* first character at or after i that is not white space.
SkipSpace(s, i) == RunEnd(s, i, WhiteSpace)

\* Number of leading decimal digits of s from position i on.
DigitRun(s, i) == RunEnd(s, i, Digits) - i

\* Number of "0" characters at the start of s[i .. j].
ZeroRun(s, i, j) == IF i > j THEN 0 ELSE Min(RunEnd(s, i, {"0"}), j + 1) - i

\* The digits s[i .. j] modulo 2^32, as two 16-bit halves: the int that the
\* long read by %d is stored into keeps its low 32 bits.
RECURSIVE Wrap32(_, _, _, _, _)
Wrap32(s, i, j, hi, lo) ==
  IF i > j THEN [hi |-> hi, lo |-> lo]
  ELSE Wrap32(s, i + 1, j,
              (hi * 10 + ((lo * 10 + DigitVal(s[i])) \div 65536)) % 65536,
              (lo * 10 + DigitVal(s[i])) % 65536)

\* Two's complement negation modulo 2^32.
Negate32(w) ==
  IF w.lo = 0 THEN [hi |-> (65536 - w.hi) % 65536, lo |-> 0]
  ELSE [hi |-> 65535 - w.hi, lo |-> 65536 - w.lo]

\* The int with these 32 bits.
Signed32(w) ==
  IF w.hi >= 32768 THEN (w.hi - 65536) * 65536 + w.lo ELSE w.hi * 65536 + w.lo

\* Value of the decimal digits s[i .. j] as an int: the value itself for
\* at most nine digits, its low 32 bits beyond.
DecVal(s, i, j) == Signed32(Wrap32(s, i, j, 0, 0))

\* The digits of 2^63: a magnitude at or above it does not fit a long.
LONG_OVER == <<"9", "2", "2", "3", "3", "7", "2", "0", "3", "6", "8", "5", "4", "7", "7", "5", "8", "0", "8">>

\* s[i ..] >= lim[k ..], two digit strings of the same length.
RECURSIVE DigitsGeq(_, _, _, _)
DigitsGeq(s, i, lim, k) ==
  IF k > Len(lim) THEN TRUE
  ELSE IF s[i] # lim[k] THEN DigitVal(s[i]) > DigitVal(lim[k])
  ELSE DigitsGeq(s, i + 1, lim, k + 1)

\* The n significant digits from d on are out of the range of long.
LongOverflow(s, d, n) ==
  n > Len(LONG_OVER) \/ (n = Len(LONG_OVER) /\ DigitsGeq(s, d, LONG_OVER, 1))

\* The int stored by %d for the n significant digits from d on.  The digits
\* are read as a long, which saturates at LONG_MAX and LONG_MIN, and the
\* long is stored into the int: -1 and 0 for the two saturated values,
\* the value modulo 2^32 otherwise.
IntOf(s, d, n, neg) ==
  IF LongOverflow(s, d, n) THEN (IF neg THEN 0 ELSE 0 - 1)
  ELSE IF neg THEN Signed32(Negate32(Wrap32(s, d, d + n - 1, 0, 0)))
  ELSE DecVal(s, d, d + n - 1)

\* The digits of a %d conversion that began at i: n digits from d on.
ScanDigits(s, i, d, n, neg) ==
  IF n = 0 THEN [st |-> "fail", val |-> 0, next |-> i]
  ELSE [st |-> "ok",
        val |-> IntOf(s, d + ZeroRun(s, d, d + n - 1),
                      n - ZeroRun(s, d, d + n - 1), neg),
        next |-> d + n]

\* A %d conversion after its white space, which ended at j.
ScanSign(s, i, j) ==
  IF j > Len(s) THEN [st |-> "eof", val |-> 0, next |-> i]
  ELSE IF s[j] \in {"-", "+"}
  THEN ScanDigits(s, i, j + 1, DigitRun(s, j + 1), s[j] = "-")
  ELSE ScanDigits(s, i, j, DigitRun(s, j), FALSE)

\* One %d conversion of sscanf at position i of s: white space, an optional
\* sign and at least one digit.  st is "eof" (input exhausted), "fail" (no
\* match) or "ok".
ScanInt(s, i) == ScanSign(s, i, SkipSpace(s, i))

\* util_parse_long(token) for a token that starts with at most nine digits.
util_parse_long(s) == DecVal(s, 1, Min(DigitRun(s, 1), 9))

-----------------------------------------------------------------------------
(* vcf_fix_headers and the header decoder *)

vcf_fix_headers ==
  << <<"#", "C", "H", "R", "O", "M">>, <<"P", "O", "S">>, <<"I", "D">>, <<"R", "E", "F">>, <<"A", "L", "T">>, <<"Q", "U", "A", "L">>, <<"F", "I", "L", "T", "E", "R">>, <<"I", "N", "F", "O">>, <<"F", "O", "R", "M", "A", "T">> >>

n_fix_header == Len(vcf_fix_headers)

Delim == {SPC, TAB}

\* Lines 49-55: the warning for a fixed name that differs, if any.
HeaderWarn(token, tok_num, w) ==
  IF tok_num < n_fix_header /\ ~StrEq(token, vcf_fix_headers[tok_num + 1])
  THEN Append(w, "fix_header_mismatch") ELSE w

\* A token loop that would pass over empty tokens, as strtok does; the code
\* uses strsep and counts them.  C6 tells the two apart.
RECURSIVE HeaderTokens_skipEmpty(_, _, _)
HeaderTokens_skipEmpty(r, tok_num, w) ==
  IF r.tok = NULL THEN [tok_num |-> tok_num, warns |-> w]
  ELSE IF Deref(r.tok) = <<>>
  THEN HeaderTokens_skipEmpty(strsep(r.cur, Delim), tok_num, w)
  ELSE HeaderTokens_skipEmpty(strsep(r.cur, Delim), tok_num + 1,
                              HeaderWarn(Deref(r.tok), tok_num, w))

\* Lines 48-56: the token loop of vcf_read_header on the '#CHROM' line.
\* r is the result of the strsep call of the loop condition.
RECURSIVE HeaderTokens(_, _, _)
HeaderTokens(r, tok_num, w) ==
  IF r.tok = NULL THEN [tok_num |-> tok_num, warns |-> w]
  ELSE HeaderTokens(strsep(r.cur, Delim), tok_num + 1,
                    HeaderWarn(Deref(r.tok), tok_num, w))

\* A '#CHROM' line handler that would treat a wrong column name as fatal;
\* the code only warns.  C8 tells the two apart.
ColumnLine_strict(t, pos, n_header_lines) ==
  IF t.warns # <<>>
  THEN [st |-> "FATAL", fpos |-> pos, eof |-> FALSE,
        n_header_lines |-> n_header_lines, n_samples |-> 0, warns |-> t.warns]
  ELSE [st |-> "DONE", fpos |-> pos, eof |-> FALSE, n_header_lines |-> n_header_lines,
        n_samples |-> t.tok_num - n_fix_header, warns |-> t.warns]

\* Lines 44-58: the '#CHROM' line, read as line number pos.
ColumnLine(t, pos, n_header_lines) ==
  [st |-> "DONE", fpos |-> pos, eof |-> FALSE, n_header_lines |-> n_header_lines,
   n_samples |-> t.tok_num - n_fix_header, warns |-> t.warns]

\* Lines 29-63: the while(1) loop of vcf_read_header, reading line pos + 1.
RECURSIVE HeaderLoop(_, _, _)
HeaderLoop(lines, pos, n_header_lines) ==
  IF pos >= Len(lines)
  THEN [st |-> "FATAL", fpos |-> pos, eof |-> TRUE,
        n_header_lines |-> n_header_lines, n_samples |-> 0, warns |-> <<>>]
  ELSE IF util_str_starts_with(lines[pos + 1], <<"#", "#">>)
  THEN HeaderLoop(lines, pos + 1, n_header_lines + 1)
  ELSE IF util_str_starts_with(lines[pos + 1], vcf_fix_headers[1])
  THEN ColumnLine(HeaderTokens(strsep(Ptr(lines[pos + 1]), Delim), 0, <<>>),
                  pos + 1, n_header_lines + 1)
  ELSE [st |-> "FATAL", fpos |-> pos + 1, eof |-> FALSE,
        n_header_lines |-> n_header_lines, n_samples |-> 0, warns |-> <<>>]

-----------------------------------------------------------------------------
(* get_format_index *)

Colon == {":"}

\* Lines 87-94: r is the result of the strsep call of the loop condition.
RECURSIVE FormatLoop(_, _, _)
FormatLoop(r, label, i) ==
  IF r.tok = NULL THEN 0 - 1
  ELSE IF StrEq(Deref(r.tok), label) THEN i
  ELSE FormatLoop(strsep(r.cur, Colon), label, i + 1)

get_format_index(format_str, label) ==
  FormatLoop(strsep(Ptr(format_str), Colon), label, 0)

\* The inner while loop of both decoders (lines 131 and 214): the subfield at
\* index idx of the ':'-delimited sample token, or NULL when the token has
\* too few subfields.  r is the result of the strsep call of the condition.
RECURSIVE InnerLoop(_, _, _)
InnerLoop(r, i, idx) ==
  IF r.tok = NULL THEN NULL
  ELSE IF i = idx THEN r.tok
  ELSE InnerLoop(strsep(r.cur, Colon), i + 1, idx)

InnerTok(gt_str, idx) == InnerLoop(strsep(Ptr(gt_str), Colon), 0, idx)

-----------------------------------------------------------------------------
(* Inputs *)

RECURSIVE Join(_, _)
Join(toks, sep) ==
  IF Len(toks) = 0 THEN <<>>
  ELSE IF Len(toks) = 1 THEN toks[1]
  ELSE toks[1] \o <<sep>> \o Join(Tail(toks), sep)

RECURSIVE Repeat(_, _)
Repeat(x, n) == IF n = 0 THEN <<>> ELSE <<x>> \o Repeat(x, n - 1)

MetaLine == <<"#", "#", "m">>

\* Fixed column names with the name at position j replaced.
Mangled(j) ==
  [vcf_fix_headers EXCEPT ![j] = IF j = 1 THEN <<"#", "C", "H", "R", "O", "M", "x">> ELSE <<"x">>]

NameVariants == {vcf_fix_headers} \cup {Mangled(j) : j \in 1..n_fix_header}

SampleName == <<"S">>

\* '#CHROM' lines: every name variant with 0 .. MaxSamples samples, a
\* space-delimited one, one with fewer than nine tokens and two with empty
\* tokens (consecutive and trailing delimiters).
ColumnLines ==
  {Join(names \o Repeat(SampleName, n), TAB) :
     names \in NameVariants, n \in 0..MaxSamples}
  \cup {Join(vcf_fix_headers \o <<SampleName>>, SPC),
        Join(SubSeq(vcf_fix_headers, 1, 2), TAB),
        Join(vcf_fix_headers \o <<SampleName, <<>>, SampleName>>, TAB),
        Join(vcf_fix_headers \o <<SampleName, <<>> >>, TAB)}

\* Lines that start with neither '##' nor '#CHROM'.
NonHeaderLines == {<<"1", "\t", "x">>, <<"#", "x">>, <<>>}

Metas(k) == Repeat(MetaLine, k)

\* The leading lines of a file: k '##' lines, then nothing (end of stream),
\* a '#CHROM' line or another line.
HeadStreams ==
  {Metas(k) \o t : k \in 0..MaxMeta,
                   t \in {<<>>} \cup {<<l>> : l \in ColumnLines \cup NonHeaderLines}}

\* Well-formed headers declaring 0 .. MaxSamples samples.
PlainHeads ==
  {<<MetaLine, Join(vcf_fix_headers \o Repeat(SampleName, n), TAB)>> :
     n \in 0..MaxSamples}

Fixed8 == <<<<"1">>, <<"5">>, <<".">>, <<"A">>, <<"G">>, <<".">>, <<".">>, <<".">>>>
Fixed8b == <<<<"2">>, <<"1", "7">>, <<"r", "s">>, <<"A", "C">>, <<"T">>, <<"3", "0">>, <<"P", "A", "S", "S">>, <<".">>>>

F_GT == <<"G", "T">>
F_GTGL == <<"G", "T", ":", "G", "L">>
F_GLGT == <<"G", "L", ":", "G", "T">>
F_DP == <<"D", "P">>

\* GT subfields: phased, unphased, multi-allelic, a literal -1, unparseable.
G01 == <<"0", "|", "1">>
G10 == <<"1", "|", "0">>
G11 == <<"1", "|", "1">>
G10u == <<"1", "/", "0">>
G01u == <<"0", "/", "1">>
G21 == <<"2", "|", "1">>
GM0 == <<"-", "1", "|", "0">>
GDD == <<".", "/", ".">>
\* White space before the second integer (a carriage return stays in the
\* token), and an integer beyond the range of int.
GCR == <<"0", "|", "\r", "1">>
GWRAP == <<"4", "2", "9", "4", "9", "6", "7", "2", "9", "7", "|", "1">>

\* GL subfields: triplets, the missing marker, triplets whose linear values
\* leave the float range, and one that is not a triplet.
L1 == <<"-", "1", ",", "0", ",", "-", "2">>
L2 == <<"-", "3", ",", "-", "1", ",", "0">>
LDOT == <<".">>
LUNDER == <<"-", "5", "0", ",", "-", "5", "0", ",", "-", "5", "0">>
LOVER == <<"4", "0", ",", "0", ",", "0">>
LBAD == <<"0", ",", "x">>
\* Fractions, an exponent and a hexadecimal float, a value that is lost in
\* the sum, and not-a-number.
LHALF == <<"-", "0", ".", "5", ",", "0", ",", "0">>
LEXP == <<"-", "1", "e", "0", ",", "0", "x", "0", "p", "0", ",", "-", "2">>
LTINY == <<"0", ",", "-", "9", ",", "0">>
LNAN == <<"n", "a", "n", ",", "0", ",", "0">>

\* A sample token from its subfields.
Sub(fields) == Join(fields, ":")

\* A data line: eight fixed columns, FORMAT and the sample tail.  An empty
\* tail leaves no character after FORMAT; an empty token in the tail stands
\* for consecutive or trailing delimiters.
DataLine(format, tail) == Join(Fixed8 \o <<format>> \o tail, TAB)

\* Sample tails under FORMAT GT, and the lines that carry them.
TailsGT ==
  {<<>>, << <<>> >>, <<G01>>, <<G10u>>, <<G01u>>, <<G21>>, <<GM0>>, <<GDD>>,
   <<G01, G10u>>, <<G10u, G01u>>, <<GDD, G11>>, <<G01, GDD>>, <<G21, G10>>,
   <<G01, <<>> >>, <<G01, G10, G11>>, <<GCR>>, <<GWRAP, G10>>}
LinesGT == {DataLine(F_GT, t) : t \in TailsGT}

\* Sample tails under FORMAT GT:GL.
TailsGTGL ==
  {<<>>, << <<>> >>, <<Sub(<<G01, L1>>)>>, <<Sub(<<G10u, LDOT>>)>>,
   <<Sub(<<G01, LUNDER>>)>>, <<Sub(<<G01, LOVER>>)>>, <<Sub(<<G01, LBAD>>)>>,
   <<Sub(<<GDD, L1>>)>>, <<G01>>,
   <<Sub(<<G01, L1>>), Sub(<<G10u, LDOT>>)>>,
   <<Sub(<<GDD, LDOT>>), Sub(<<G01, L2>>)>>,
   <<G01, Sub(<<G01, LDOT>>)>>,
   <<Sub(<<G01, LBAD>>), Sub(<<G01, LDOT>>)>>,
   <<Sub(<<G01, LHALF>>)>>, <<Sub(<<GCR, LEXP>>)>>, <<Sub(<<G01, LNAN>>)>>,
   <<Sub(<<GWRAP, LTINY>>), Sub(<<G01, LHALF>>)>>}
LinesGTGL == {DataLine(F_GTGL, t) : t \in TailsGTGL}

\* Sample tails under FORMAT GL:GT.
TailsGLGT ==
  {<<>>, << <<>> >>, <<Sub(<<L1, G01>>)>>, <<Sub(<<LDOT, G10u>>)>>, <<LDOT>>,
   <<LDOT, Sub(<<L1, G01>>)>>,
   <<Sub(<<L1, G01>>), <<>>, Sub(<<L2, G11>>)>>,
   <<Sub(<<LDOT, GDD>>), Sub(<<LDOT, G11>>)>>}
LinesGLGT == {DataLine(F_GLGT, t) : t \in TailsGLGT}

\* FORMAT without GT and GL, a space-delimited record with other fixed
\* columns, and lines with fewer than nine tokens.
LinesOther ==
  {DataLine(F_DP, <<G01>>),
   Join(Fixed8b \o <<F_GTGL, Sub(<<G01, L1>>)>>, SPC),
   Join(Fixed8, TAB),
   Join(SubSeq(Fixed8, 1, 3), TAB)}

DataLines == LinesGT \cup LinesGTGL \cup LinesGLGT \cup LinesOther

\* Data lines with 0 .. MaxSamples well-formed sample tokens.
FewTails == {Repeat(Sub(<<G01, LDOT>>), n) : n \in 0..MaxSamples}
FewLines == {DataLine(F_GTGL, t) : t \in FewTails}

\* Sample tails for a decoder that is called on its own: none, one and two
\* sample tokens.
DirectTails ==
  {NULL, Ptr(G01), Ptr(Join(<<G10u, GCR>>, TAB)), Ptr(Sub(<<G01, LHALF>>)),
   Ptr(Join(<<Sub(<<LDOT, G11>>), Sub(<<L1, G01u>>)>>, TAB))}

\* The FORMAT strings and the sample tails of the lines above, as the
\* decoders receive them: NULL when no character follows FORMAT.
Formats == {F_GT, F_GTGL, F_GLGT, F_DP}
SampleTails ==
  {IF t = <<>> THEN NULL ELSE Ptr(Join(t, TAB)) :
     t \in TailsGT \cup TailsGTGL \cup TailsGLGT \cup FewTails}
  \cup DirectTails

-----------------------------------------------------------------------------
(* parse_haplotypes *)

\* Line 10: #define VCF_GTYPE_MISSING -1
VCF_GTYPE_MISSING == 0 - 1

\* buf[idx] = v on a buffer whose written part is the sequence buf.
WriteAt(buf, idx, v) ==
  IF idx = Len(buf) THEN Append(buf, v) ELSE [buf EXCEPT ![idx + 1] = v]

\* The second conversion of sscanf(inner_tok, "%d<sep>%d", &hap1, &hap2).
ScanSecond(a, hap2, b) ==
  IF b.st = "ok" THEN [n |-> 2, hap1 |-> a.val, hap2 |-> b.val]
  ELSE [n |-> 1, hap1 |-> a.val, hap2 |-> hap2]

\* After the first conversion a: the separator, then the second conversion.
ScanFirst(s, sep, hap1, hap2, a) ==
  IF a.st = "eof" THEN [n |-> 0 - 1, hap1 |-> hap1, hap2 |-> hap2]
  ELSE IF a.st = "fail" THEN [n |-> 0, hap1 |-> hap1, hap2 |-> hap2]
  ELSE IF a.next > Len(s) \/ s[a.next] # sep
  THEN [n |-> 1, hap1 |-> a.val, hap2 |-> hap2]
  ELSE ScanSecond(a, hap2, ScanInt(s, a.next + 1))

\* n = sscanf(s, "%d<sep>%d", &hap1, &hap2): the count returned and the two
\* variables, each keeping its old value unless assigned.
ScanPair(s, sep, hap1, hap2) == ScanFirst(s, sep, hap1, hap2, ScanInt(s, 1))

\* A '/' branch that would make an unparseable GT subfield fatal, the policy
\* of the likelihood decoder; the code degrades to MISSING.  C9 tells the two
\* apart.
AfterSlash_fatal(p, s2) ==
  IF s2.n = 2 /\ p.warn_phase
  THEN [p EXCEPT !.hap1 = s2.hap1, !.hap2 = s2.hap2,
                 !.warns = Append(p.warns, "unphased"),
                 !.warn_phase = FALSE]
  ELSE [p EXCEPT !.err = "gt_unparsed"]

\* Lines 138-148: after the '/' attempt s2.  p holds hap1, hap2, warn_phase
\* and warns.
AfterSlash(p, s2) ==
  IF s2.n = 2 /\ p.warn_phase
  THEN [p EXCEPT !.hap1 = s2.hap1, !.hap2 = s2.hap2,
                 !.warns = Append(p.warns, "unphased"),
                 !.warn_phase = FALSE]
  ELSE [p EXCEPT !.hap1 = VCF_GTYPE_MISSING, !.hap2 = VCF_GTYPE_MISSING,
                 !.warns = Append(p.warns, "gt_unparsed")]

\* Lines 134-149: after the '|' attempt s1.
AfterBar(inner_tok, p, s1) ==
  IF s1.n = 2 THEN [p EXCEPT !.hap1 = s1.hap1, !.hap2 = s1.hap2]
  ELSE AfterSlash(p, ScanPair(inner_tok, "/", s1.hap1, s1.hap2))

\* Lines 133-149: the two sscanf attempts, the one-shot unphased notice and
\* the degradation to MISSING.
ParseGT(inner_tok, p) ==
  AfterBar(inner_tok, p, ScanPair(inner_tok, "|", p.hap1, p.hap2))

\* Lines 151-161: values other than 0, 1 and MISSING set both to MISSING.
Coerce(p) ==
  IF \/ (p.hap1 # VCF_GTYPE_MISSING /\ p.hap1 # 0 /\ p.hap1 # 1)
     \/ (p.hap2 # VCF_GTYPE_MISSING /\ p.hap2 # 0 /\ p.hap2 # 1)
  THEN [p EXCEPT !.hap1 = VCF_GTYPE_MISSING, !.hap2 = VCF_GTYPE_MISSING]
  ELSE p

\* Lines 163-170: the capacity check and the two writes.
HapStore(q, expect_haps) ==
  IF (q.n_haps + 2) > expect_haps THEN [q EXCEPT !.err = "more_genotypes"]
  ELSE [q EXCEPT
          !.haplotypes = WriteAt(WriteAt(q.haplotypes, q.n_haps, q.hap1),
                                 q.n_haps + 1, q.hap2),
          !.n_haps = q.n_haps + 2]

\* Lines 132-171: the GT subfield inner_tok of a sample token, if it has one.
HapSubfield(inner_tok, expect_haps, p) ==
  IF inner_tok = NULL THEN p
  ELSE HapStore(Coerce(ParseGT(Deref(inner_tok), p)), expect_haps)

\* Lines 127-174: one sample token of the tail.
HapToken(tok, gt_idx, expect_haps, p) ==
  HapSubfield(InnerTok(util_strncpy(tok, VCF_MAX_FORMAT), gt_idx), expect_haps, p)

\* Lines 122-175: the while loop over the sample tail.  r is the result of
\* the strsep call of the loop condition; a fatal error ends the loop.
RECURSIVE HapLoop(_, _, _, _)
HapLoop(r, gt_idx, expect_haps, p) ==
  IF r.tok = NULL \/ p.err # "" THEN p
  ELSE HapLoop(strsep(r.cur, Delim), gt_idx, expect_haps,
               HapToken(Deref(r.tok), gt_idx, expect_haps, p))

\* Lines 177-180: the final count check.
HapFinish(p, expect_haps) ==
  IF p.err = "" /\ p.n_haps # expect_haps THEN [p EXCEPT !.err = "genotype_count"]
  ELSE p

\* Lines 111-180 once gt_idx is known.
HapDecode(info, cur, gt_idx, p0) ==
  IF gt_idx = 0 - 1 THEN [p0 EXCEPT !.err = "no_GT"]
  ELSE HapFinish(HapLoop(strsep(cur, Delim), gt_idx, info.n_samples * 2, p0),
                 info.n_samples * 2)

\* Lines 108-180 for every FORMAT, sample count and sample tail of the lines
\* of the model and both values of warn_phase, computed once and kept as an
\* explicit function (the result of @@).
HapTable ==
  [f \in Formats, n \in 0..MaxSamples, cur \in SampleTails, wp \in BOOLEAN |->
     HapDecode([n_samples |-> n], cur, get_format_index(f, <<"G", "T">>),
               [err |-> "", n_haps |-> 0, haplotypes |-> <<>>, hap1 |-> 0, hap2 |-> 0,
                warn_phase |-> wp, warns |-> <<>>])] @@ <<>>

\* parse_haplotypes(vcf_info, haplotypes, cur) with the static warn_phase wp.
\* hap1 and hap2 start indeterminate; no path reads them before a write.
\* A call that HapTable holds is looked up, any other is computed.
parse_haplotypes(info, cur, wp) ==
  IF <<info.format, info.n_samples, cur, wp>> \in DOMAIN HapTable
  THEN HapTable[info.format, info.n_samples, cur, wp]
  ELSE HapDecode(info, cur, get_format_index(info.format, <<"G", "T">>),
                 [err |-> "", n_haps |-> 0, haplotypes |-> <<>>, hap1 |-> 0, hap2 |-> 0,
                  warn_phase |-> wp, warns |-> <<>>])

-----------------------------------------------------------------------------
(* parse_geno_probs *)

\* A float is [k, neg, n, x]: when k is "num" the number n * 2^x, negated
\* when neg holds, where n has at most FLT_MANT_DIG bits and either n = 0
\* (and x = 0), or n has all its FLT_MANT_DIG bits and x is at least
\* FLT_MIN_ULP (a normal number), or x is FLT_MIN_ULP (a subnormal number);
\* an infinity when k is "inf"; not a number when k is "nan".
FNum(neg, n, x) == [k |-> "num", neg |-> neg, n |-> n, x |-> x]
FZero(neg) == FNum(neg, 0, 0)
FInf(neg) == [k |-> "inf", neg |-> neg, n |-> 0, x |-> 0]
FNaN == [k |-> "nan", neg |-> FALSE, n |-> 0, x |-> 0]

\* The format of float: the bits of n, and the least and the greatest x.
FLT_MANT_DIG == 24
FLT_MIN_ULP == 0 - 149
FLT_MAX_ULP == 104

\* 2^n for n up to 30.
POW2 ==
  <<1, 2, 4, 8, 16, 32, 64, 128, 256, 512, 1024, 2048, 4096, 8192, 16384, 32768,
    65536, 131072, 262144, 524288, 1048576, 2097152, 4194304, 8388608, 16777216,
    33554432, 67108864, 134217728, 268435456, 536870912, 1073741824>>
Pow2(n) == POW2[n + 1]

\* Number of bits of q.
RECURSIVE BitLen(_)
BitLen(q) == IF q = 0 THEN 0 ELSE 1 + BitLen(q \div 2)

\* The float n * 2^x for n up to 2^FLT_MANT_DIG, as a rounding leaves it.
Pack(neg, n, x) ==
  IF n = 0 THEN FZero(neg)
  ELSE IF n = Pow2(FLT_MANT_DIG)
  THEN (IF x + 1 > FLT_MAX_ULP THEN FInf(neg)
        ELSE FNum(neg, Pow2(FLT_MANT_DIG - 1), x + 1))
  ELSE IF x > FLT_MAX_ULP THEN FInf(neg)
  ELSE FNum(neg, n, x)

\* Round to nearest, ties to even: n0 units, the half unit, and whether
\* anything lies below the half unit.
RoundEven(n0, half, low) == IF half /\ (low \/ n0 % 2 = 1) THEN n0 + 1 ELSE n0

\* q * 2^k, and more when st holds, rounded to a multiple of 2^(k + sh) for
\* sh >= 1.  lost is a part of q that the rounding does not see.
Shifted(neg, q, st, k, sh, lost) ==
  Pack(neg,
       RoundEven(q \div Pow2(sh), (q \div Pow2(sh - 1)) % 2 = 1,
                 st \/ (q % Pow2(sh - 1)) - lost # 0),
       k + sh)

\* strtof on a hexadecimal field whose value is subnormal takes FLT_MANT_DIG
\* bits, shifts them and rounds on the bits shifted out and on the bits
\* after the next one: the bit that follows the first FLT_MANT_DIG, of the
\* b bits of q, takes no part.
LostBit(q, b) ==
  IF b > FLT_MANT_DIG
  THEN ((q \div Pow2(b - FLT_MANT_DIG - 1)) % 2) * Pow2(b - FLT_MANT_DIG - 1)
  ELSE 0

\* The float nearest to q * 2^k, or to a number between that and
\* (q + 1) * 2^k when st holds, for q below 2^30 with b bits.
RoundBits(neg, q, st, k, hex, b) ==
  IF q = 0 THEN FZero(neg)
  ELSE IF k + b - FLT_MANT_DIG >= FLT_MIN_ULP
  THEN (IF b > FLT_MANT_DIG THEN Shifted(neg, q, st, k, b - FLT_MANT_DIG, 0)
        ELSE Pack(neg, q * Pow2(FLT_MANT_DIG - b), k + b - FLT_MANT_DIG))
  ELSE IF FLT_MIN_ULP - k > b THEN FZero(neg)
  ELSE IF FLT_MIN_ULP - k >= 1
  THEN Shifted(neg, q, st, k, FLT_MIN_ULP - k, IF hex THEN LostBit(q, b) ELSE 0)
  ELSE Pack(neg, q * Pow2(k - FLT_MIN_ULP), FLT_MIN_ULP)

FRound(neg, q, st, k, hex) == RoundBits(neg, q, st, k, hex, BitLen(q))

HexLetters == {"a", "b", "c", "d", "e", "f", "A", "B", "C", "D", "E", "F"}

HexVal(c) ==
  CASE c \in Digits -> DigitVal(c)
    [] c \in {"a", "A"} -> 10 [] c \in {"b", "B"} -> 11 [] c \in {"c", "C"} -> 12
    [] c \in {"d", "D"} -> 13 [] c \in {"e", "E"} -> 14 [] c \in {"f", "F"} -> 15

Upper(c) ==
  CASE c = "n" -> "N" [] c = "a" -> "A" [] c = "i" -> "I" [] c = "f" -> "F"
    [] c = "t" -> "T" [] c = "y" -> "Y"

\* The word w stands at position j of s, in either case.
MatchCI(s, j, w) ==
  /\ j + Len(w) - 1 <= Len(s)
  /\ \A k \in 1..Len(w) : s[j + k - 1] \in {w[k], Upper(w[k])}

\* The letter that starts the exponent: 'p' after a 0x prefix, 'e' otherwise.
ExpChar(hex) == IF hex THEN {"p", "P"} ELSE {"e", "E"}

\* The characters %g takes for a number, from position j on: digits (hex
\* digits after 0x, before the exponent), one '.', one exponent letter once
\* a digit was read, a sign right after the exponent letter and decimal
\* digits.  The result is the position of the first character not taken.
FieldDigits(hex) == IF hex THEN Digits \cup HexLetters ELSE Digits

\* The exponent part at position p, if there is one.
ExpEnd(s, p, hex, got_digit) ==
  IF ~got_digit \/ p > Len(s) \/ s[p] \notin ExpChar(hex) THEN p
  ELSE IF p + 1 <= Len(s) /\ s[p + 1] \in {"-", "+"} THEN RunEnd(s, p + 2, Digits)
  ELSE RunEnd(s, p + 1, Digits)

\* The fraction digits end at f, after the '.' at position a.
FracEnd(s, j, a, f, hex) == ExpEnd(s, f, hex, a > j \/ f > a + 1)

\* The integer digits end at a.
DotEnd(s, j, a, hex) ==
  IF a <= Len(s) /\ s[a] = "." THEN FracEnd(s, j, a, RunEnd(s, a + 1, FieldDigits(hex)), hex)
  ELSE ExpEnd(s, a, hex, a > j)

FieldEnd(s, j, hex) == DotEnd(s, j, RunEnd(s, j, FieldDigits(hex)), hex)

HexRun(s, i) == RunEnd(s, i, Digits \cup HexLetters) - i

\* 10^n for n up to 9.
POW10 == <<1, 10, 100, 1000, 10000, 100000, 1000000, 10000000, 100000000, 1000000000>>
Pow10(n) == POW10[n + 1]

\* 5^n for n up to 11.
POW5 == <<1, 5, 25, 125, 625, 3125, 15625, 78125, 390625, 1953125, 9765625, 48828125>>

\* Value of a digit sequence of at most nine digits.
RECURSIVE SeqVal(_)
SeqVal(dig) ==
  IF dig = <<>> THEN 0 ELSE 10 * SeqVal(SubSeq(dig, 1, Len(dig) - 1)) + dig[Len(dig)]

\* Arithmetic on digit sequences, most significant digit first.
RECURSIVE CarryDigits(_)
CarryDigits(c) == IF c = 0 THEN <<>> ELSE Append(CarryDigits(c \div 10), c % 10)

\* dig * c + carry for a small c, by halves of dig: the digits of the
\* product that stand below the carry out, and the carry out.
RECURSIVE MulPart(_, _, _)
MulJoin(hi, lo) == [dig |-> hi.dig \o lo.dig, carry |-> hi.carry]
MulHigh(dig, c, lo) ==
  IF lo.carry = 0 THEN MulJoin(MulPart(dig, c, 0), lo)
  ELSE MulJoin(MulPart(dig, c, lo.carry), lo)
MulPart(dig, c, carry) ==
  IF dig = <<>> THEN [dig |-> <<>>, carry |-> carry]
  ELSE IF Len(dig) = 1
  THEN [dig |-> <<(dig[1] * c + carry) % 10>>, carry |-> (dig[1] * c + carry) \div 10]
  ELSE MulHigh(SubSeq(dig, 1, Len(dig) \div 2), c,
               MulPart(SubSeq(dig, Len(dig) \div 2 + 1, Len(dig)), c, carry))

MulWhole(p) == CarryDigits(p.carry) \o p.dig
MulSmall(dig, c, carry) == MulWhole(MulPart(dig, c, carry))

\* Factors 2 and 5 taken at a time: a digit times 2^POW2_STEP or 5^POW5_STEP
\* and a carry fit an int.
POW2_STEP == 27
POW5_STEP == 11

\* dig * 2^n
RECURSIVE Times2(_, _)
Times2(dig, n) ==
  IF dig = <<>> \/ n = 0 THEN dig
  ELSE IF n >= POW2_STEP THEN Times2(MulSmall(dig, Pow2(POW2_STEP), 0), n - POW2_STEP)
  ELSE MulSmall(dig, Pow2(n), 0)

\* dig * 5^n
RECURSIVE Times5(_, _)
Times5(dig, n) ==
  IF dig = <<>> \/ n = 0 THEN dig
  ELSE IF n >= POW5_STEP THEN Times5(MulSmall(dig, POW5[POW5_STEP + 1], 0), n - POW5_STEP)
  ELSE MulSmall(dig, POW5[n + 1], 0)

\* The decimal digits s[a .. b] appended to dig, without leading zeros.
DecTail(s, a, b) == [k \in 1..(b - a + 1) |-> DigitVal(s[a + k - 1])]
DecDigits(s, a, b, dig) ==
  IF a > b THEN dig
  ELSE IF dig = <<>> THEN SubSeq(DecTail(s, a, b), ZeroRun(s, a, b) + 1, b - a + 1)
  ELSE dig \o SubSeq(DecTail(s, a, b), 1, b - a + 1)

\* A number below 10^DEC_MIN is less than half of the least float, one of
\* 10^DEC_MAX or more is beyond the greatest.
DEC_MIN == 0 - 46
DEC_MAX == 39

\* A binary exponent k for a number with its first digit at 10^(d - 1), such
\* that the number has between 26 and 30 bits above 2^k.
KLow(d) ==
  IF d >= 1 THEN ((d - 1) * 33219) \div 10000 - 25
  ELSE ((d - 1) * 33220) \div 10000 - 25

\* dig * 10^e / 2^k as digits and a power of ten.
Scaled(dig, e, k) ==
  IF k <= 0 THEN [dig |-> Times2(dig, 0 - k), e |-> e]
  ELSE [dig |-> Times5(dig, k), e |-> e - k]

\* The whole part q of p.dig * 10^p.e, and whether a fraction is left.
Cut(p) ==
  IF p.e >= 0 THEN [q |-> SeqVal(p.dig) * Pow10(p.e), st |-> FALSE]
  ELSE IF Len(p.dig) + p.e <= 0 THEN [q |-> 0, st |-> TRUE]
  ELSE [q |-> SeqVal(SubSeq(p.dig, 1, Len(p.dig) + p.e)),
        st |-> \E j \in (Len(p.dig) + p.e + 1)..Len(p.dig) : p.dig[j] # 0]

\* The float nearest to dig * 10^e, for digits without a leading zero, or to
\* a number just above it when st holds.
MakeFloat(neg, dig, e, st) ==
  IF dig = <<>> THEN FZero(neg)
  ELSE IF Len(dig) + e > DEC_MAX THEN FInf(neg)
  ELSE IF Len(dig) + e <= DEC_MIN THEN FZero(neg)
  ELSE LET k == KLow(Len(dig) + e)
            c == Cut(Scaled(dig, e, k))
       IN  FRound(neg, c.q, c.st \/ st, k, FALSE)

\* Bound on the exponents kept exactly; beyond it the result is 0 or
\* infinity whatever the digits are.
EXP_CLAMP == 99999

\* The exponent written with the n digits from d on.
ExpVal(s, d, n, neg) ==
  IF n - ZeroRun(s, d, d + n - 1) > 5 THEN (IF neg THEN 0 - EXP_CLAMP ELSE EXP_CLAMP)
  ELSE IF neg THEN 0 - DecVal(s, d + ZeroRun(s, d, d + n - 1), d + n - 1)
  ELSE DecVal(s, d + ZeroRun(s, d, d + n - 1), d + n - 1)

\* The exponent part of the field s[.. end - 1] that starts at position x
\* with the exponent letter, if it does: 0 unless a digit follows.
Exponent(s, x, end, hex) ==
  IF x >= end \/ s[x] \notin ExpChar(hex) THEN 0
  ELSE IF x + 1 < end /\ s[x + 1] \in {"-", "+"}
  THEN (IF DigitRun(s, x + 2) = 0 THEN 0
        ELSE ExpVal(s, x + 2, DigitRun(s, x + 2), s[x + 1] = "-"))
  ELSE IF DigitRun(s, x + 1) = 0 THEN 0
  ELSE ExpVal(s, x + 1, DigitRun(s, x + 1), FALSE)

\* strtof on a decimal field: n integer digits from d on, f fraction digits
\* after a '.', then the exponent part at x.
DecFloat(s, d, n, f, x, end, neg) ==
  MakeFloat(neg, DecDigits(s, d + n + 1, d + n + f, DecDigits(s, d, d + n - 1, <<>>)),
            Exponent(s, x, end, FALSE) - f, FALSE)

\* A decimal field s[d .. end - 1] with n integer and f fraction digits.
DecParts(s, i, d, end, n, dot, f, neg) ==
  IF end = d \/ n + f = 0 THEN [st |-> "fail", val |-> FNaN, next |-> i]
  ELSE [st |-> "ok",
        val |-> DecFloat(s, d, n, f, IF dot THEN d + n + 1 + f ELSE d + n, end, neg),
        next |-> end]

DecField(s, i, d, end, n, neg) ==
  IF d + n < end /\ s[d + n] = "."
  THEN DecParts(s, i, d, end, n, TRUE, DigitRun(s, d + n + 1), neg)
  ELSE DecParts(s, i, d, end, n, FALSE, 0, neg)

\* The hexadecimal digits s[a .. b].
HexSeq(s, a, b) == [j \in 1..(b - a + 1) |-> HexVal(s[a + j - 1])]

\* The number written by the m digits of h from position j on, with zeros
\* after the end of h.
RECURSIVE HexTop(_, _, _)
HexTop(h, j, m) ==
  IF m = 0 THEN 0
  ELSE 16 * HexTop(h, j, m - 1) + (IF j + m - 1 <= Len(h) THEN h[j + m - 1] ELSE 0)

\* Hexadecimal digits that hold the FLT_MANT_DIG bits and the next one.
HEX_TOP == 7

\* The float for the number h * 2^b whose first nonzero digit is h[nz].
HexAt(neg, h, nz, b) ==
  FRound(neg, HexTop(h, nz, HEX_TOP), \E j \in (nz + HEX_TOP)..Len(h) : h[j] # 0,
         4 * (Len(h) - nz - (HEX_TOP - 1)) + b, TRUE)

\* strtof on the hexadecimal digits h with the binary exponent b.
HexFloat(neg, h, b) ==
  IF \A j \in 1..Len(h) : h[j] = 0 THEN FZero(neg)
  ELSE HexAt(neg, h,
             CHOOSE j \in 1..Len(h) : h[j] # 0 /\ \A i \in 1..(j - 1) : h[i] = 0, b)

\* A field s[d .. end - 1] that starts with 0x, with n hex digits before and
\* f after a '.'.  Without any hex digit strtof reads the "0" alone.
HexParts(s, i, d, end, n, dot, f, neg) ==
  IF end = d + 2 THEN [st |-> "fail", val |-> FNaN, next |-> i]
  ELSE IF n + f = 0 THEN [st |-> "ok", val |-> FZero(neg), next |-> end]
  ELSE [st |-> "ok",
        val |-> HexFloat(neg,
                         HexSeq(s, d + 2, d + 2 + n - 1)
                           \o HexSeq(s, d + 2 + n + 1, d + 2 + n + f),
                         Exponent(s, IF dot THEN d + 2 + n + 1 + f ELSE d + 2 + n,
                                  end, TRUE) - 4 * f),
        next |-> end]

HexField(s, i, d, end, n, neg) ==
  IF d + 2 + n < end /\ s[d + 2 + n] = "."
  THEN HexParts(s, i, d, end, n, TRUE, HexRun(s, d + 2 + n + 1), neg)
  ELSE HexParts(s, i, d, end, n, FALSE, 0, neg)

\* "inf" or "infinity" at position j.
ScanInf(s, i, j, neg) ==
  IF ~MatchCI(s, j, <<"i", "n", "f">>) THEN [st |-> "fail", val |-> FNaN, next |-> i]
  ELSE IF j + 3 <= Len(s) /\ s[j + 3] \in {"i", "I"}
  THEN (IF MatchCI(s, j + 3, <<"i", "n", "i", "t", "y">>)
        THEN [st |-> "ok", val |-> FInf(neg), next |-> j + 8]
        ELSE [st |-> "fail", val |-> FNaN, next |-> i])
  ELSE [st |-> "ok", val |-> FInf(neg), next |-> j + 3]

\* "nan" at position j.
ScanNan(s, i, j) ==
  IF MatchCI(s, j, <<"n", "a", "n">>) THEN [st |-> "ok", val |-> FNaN, next |-> j + 3]
  ELSE [st |-> "fail", val |-> FNaN, next |-> i]

\* A %g conversion after its sign, at position j.
ScanMantissa(s, i, j, neg) ==
  IF j > Len(s) THEN [st |-> "fail", val |-> FNaN, next |-> i]
  ELSE IF s[j] \in {"n", "N"} THEN ScanNan(s, i, j)
  ELSE IF s[j] \in {"i", "I"} THEN ScanInf(s, i, j, neg)
  ELSE IF s[j] = "0" /\ j + 1 <= Len(s) /\ s[j + 1] \in {"x", "X"}
  THEN HexField(s, i, j, FieldEnd(s, j + 2, TRUE),
                HexRun(s, j + 2), neg)
  ELSE DecField(s, i, j, FieldEnd(s, j, FALSE),
                DigitRun(s, j), neg)

\* A %g conversion after its white space, which ended at j.
ScanSignG(s, i, j) ==
  IF j > Len(s) THEN [st |-> "eof", val |-> FNaN, next |-> i]
  ELSE IF s[j] \in {"-", "+"} THEN ScanMantissa(s, i, j + 1, s[j] = "-")
  ELSE ScanMantissa(s, i, j, FALSE)

\* One %g conversion of sscanf at position i of s.  st is "eof" (input
\* exhausted), "fail" (no match) or "ok"; next is the position after the
\* characters taken.
ScanFloat(s, i) == ScanSignG(s, i, SkipSpace(s, i))

\* The third conversion of sscanf(inner_tok, "%g,%g,%g", ...).
ScanThird(a, b, c) ==
  IF c.st # "ok" THEN [n |-> 2, like |-> <<a.val, b.val>>]
  ELSE [n |-> 3, like |-> <<a.val, b.val, c.val>>]

\* After the second conversion b.
ScanSecondG(s, a, b) ==
  IF b.st # "ok" THEN [n |-> 1, like |-> <<a.val>>]
  ELSE IF b.next > Len(s) \/ s[b.next] # "," THEN [n |-> 2, like |-> <<a.val, b.val>>]
  ELSE ScanThird(a, b, ScanFloat(s, b.next + 1))

\* After the first conversion a.
ScanFirstG(s, a) ==
  IF a.st = "eof" THEN [n |-> 0 - 1, like |-> <<>>]
  ELSE IF a.st = "fail" THEN [n |-> 0, like |-> <<>>]
  ELSE IF a.next > Len(s) \/ s[a.next] # "," THEN [n |-> 1, like |-> <<a.val>>]
  ELSE ScanSecondG(s, a, ScanFloat(s, a.next + 1))

\* n = sscanf(s, "%g,%g,%g", ...): the count and the values assigned.
ScanTriple(s) == ScanFirstG(s, ScanFloat(s, 1))

\* The value the '.' marker is replaced by: the double -0.477 as a float.
LIKE_MISSING == MakeFloat(TRUE, <<4, 7, 7>>, 0 - 3, FALSE)

\* 1.0f
FLT_ONE == FNum(FALSE, Pow2(FLT_MANT_DIG - 1), 1 - FLT_MANT_DIG)

\* pow works on fixed-point numbers below 10 with FIX_DIGITS decimals:
\* <<d, l1, ..., l5>> is d + l1 / LIMB + ... + l5 / LIMB^5.
LIMB == 10000
FIX_DIGITS == 20
FIX_ONE == <<1, 0, 0, 0, 0, 0>>

\* POW_POS[i] is 10^(2^-i) and POW_NEG[i] is 10^-(2^-i), cut after
\* FIX_DIGITS decimals, for i up to POW_BITS.
POW_BITS == 63
POW_POS ==
  <<<<3, 1622, 7766, 168, 3793, 3199>>,
   <<1, 7782, 7941, 38, 9228, 122>>,
   <<1, 3335, 2143, 2163, 3240, 2567>>,
   <<1, 1547, 8198, 4689, 4581, 7966>>,
   <<1, 746, 782, 8321, 3174, 9721>>,
   <<1, 366, 3292, 8437, 6979, 9729>>,
   <<1, 181, 5172, 1718, 1818, 4147>>,
   <<1, 90, 3504, 4841, 4474, 3775>>,
   <<1, 45, 736, 4254, 4625, 1566>>,
   <<1, 22, 5114, 8292, 9129, 1546>>,
   <<1, 11, 2494, 1399, 8798, 7588>>,
   <<1, 5, 6231, 2602, 2086, 3661>>,
   <<1, 2, 8111, 6787, 7801, 3239>>,
   <<1, 1, 4054, 8516, 9472, 5816>>,
   <<1, 0, 7027, 1789, 4114, 3553>>,
   <<1, 0, 3513, 5277, 4618, 5660>>,
   <<1, 0, 1756, 7484, 4226, 7383>>,
   <<1, 0, 878, 3703, 6346, 1214>>,
   <<1, 0, 439, 1842, 1731, 6723>>,
   <<1, 0, 219, 5918, 6755, 5420>>,
   <<1, 0, 109, 7958, 7350, 2040>>,
   <<1, 0, 54, 8979, 2168, 2111>>,
   <<1, 0, 27, 4489, 5707, 3829>>,
   <<1, 0, 13, 7244, 7759, 5108>>,
   <<1, 0, 6, 8622, 3856, 2102>>,
   <<1, 0, 3, 4311, 1922, 2188>>,
   <<1, 0, 1, 7155, 5959, 6378>>,
   <<1, 0, 0, 8577, 7979, 4510>>,
   <<1, 0, 0, 4288, 8989, 6335>>,
   <<1, 0, 0, 2144, 4494, 7937>>,
   <<1, 0, 0, 1072, 2247, 3911>>,
   <<1, 0, 0, 536, 1123, 6941>>,
   <<1, 0, 0, 268, 561, 8467>>,
   <<1, 0, 0, 134, 280, 9232>>,
   <<1, 0, 0, 67, 140, 4616>>,
   <<1, 0, 0, 33, 5070, 2307>>,
   <<1, 0, 0, 16, 7535, 1153>>,
   <<1, 0, 0, 8, 3767, 5576>>,
   <<1, 0, 0, 4, 1883, 7788>>,
   <<1, 0, 0, 2, 941, 8894>>,
   <<1, 0, 0, 1, 470, 9447>>,
   <<1, 0, 0, 0, 5235, 4723>>,
   <<1, 0, 0, 0, 2617, 7361>>,
   <<1, 0, 0, 0, 1308, 8680>>,
   <<1, 0, 0, 0, 654, 4340>>,
   <<1, 0, 0, 0, 327, 2170>>,
   <<1, 0, 0, 0, 163, 6085>>,
   <<1, 0, 0, 0, 81, 8042>>,
   <<1, 0, 0, 0, 40, 9021>>,
   <<1, 0, 0, 0, 20, 4510>>,
   <<1, 0, 0, 0, 10, 2255>>,
   <<1, 0, 0, 0, 5, 1127>>,
   <<1, 0, 0, 0, 2, 5563>>,
   <<1, 0, 0, 0, 1, 2781>>,
   <<1, 0, 0, 0, 0, 6390>>,
   <<1, 0, 0, 0, 0, 3195>>,
   <<1, 0, 0, 0, 0, 1597>>,
   <<1, 0, 0, 0, 0, 798>>,
   <<1, 0, 0, 0, 0, 399>>,
   <<1, 0, 0, 0, 0, 199>>,
   <<1, 0, 0, 0, 0, 99>>,
   <<1, 0, 0, 0, 0, 49>>,
   <<1, 0, 0, 0, 0, 24>>>>
POW_NEG ==
  <<<<0, 3162, 2776, 6016, 8379, 3319>>,
   <<0, 5623, 4132, 5190, 3490, 8039>>,
   <<0, 7498, 9420, 9332, 4558, 2730>>,
   <<0, 8659, 6432, 3360, 653, 5235>>,
   <<0, 9305, 7204, 929, 6989, 7929>>,
   <<0, 9646, 6161, 9911, 1992, 1371>>,
   <<0, 9821, 7188, 9188, 378, 520>>,
   <<0, 9910, 4585, 6248, 8608, 7064>>,
   <<0, 9955, 1286, 915, 8501, 8289>>,
   <<0, 9977, 5390, 7993, 2737, 5167>>,
   <<0, 9988, 7632, 2671, 2673, 2193>>,
   <<0, 9994, 3800, 3415, 5531, 9602>>,
   <<0, 9997, 1896, 2216, 6587, 6533>>,
   <<0, 9998, 5947, 1234, 1623, 6874>>,
   <<0, 9999, 2973, 3148, 3659, 6509>>,
   <<0, 9999, 6486, 5956, 9824, 9316>>,
   <<0, 9999, 8243, 2824, 1884, 1358>>,
   <<0, 9999, 9121, 6373, 5181, 5970>>,
   <<0, 9999, 9560, 8177, 1150, 2572>>,
   <<0, 9999, 9780, 4086, 1464, 9403>>,
   <<0, 9999, 9890, 2042, 4704, 9165>>,
   <<0, 9999, 9945, 1021, 845, 5690>>,
   <<0, 9999, 9972, 5510, 5046, 620>>,
   <<0, 9999, 9986, 2755, 2428, 8504>>,
   <<0, 9999, 9993, 1377, 6190, 8800>>,
   <<0, 9999, 9996, 5688, 8089, 5537>>,
   <<0, 9999, 9998, 2844, 4043, 3052>>,
   <<0, 9999, 9999, 1422, 2021, 2847>>,
   <<0, 9999, 9999, 5711, 1010, 5504>>,
   <<0, 9999, 9999, 7855, 5505, 2522>>,
   <<0, 9999, 9999, 8927, 7752, 6203>>,
   <<0, 9999, 9999, 9463, 8876, 3087>>,
   <<0, 9999, 9999, 9731, 9438, 1540>>,
   <<0, 9999, 9999, 9865, 9719, 769>>,
   <<0, 9999, 9999, 9932, 9859, 5384>>,
   <<0, 9999, 9999, 9966, 4929, 7692>>,
   <<0, 9999, 9999, 9983, 2464, 8846>>,
   <<0, 9999, 9999, 9991, 6232, 4423>>,
   <<0, 9999, 9999, 9995, 8116, 2211>>,
   <<0, 9999, 9999, 9997, 9058, 1105>>,
   <<0, 9999, 9999, 9998, 9529, 552>>,
   <<0, 9999, 9999, 9999, 4764, 5276>>,
   <<0, 9999, 9999, 9999, 7382, 2638>>,
   <<0, 9999, 9999, 9999, 8691, 1319>>,
   <<0, 9999, 9999, 9999, 9345, 5659>>,
   <<0, 9999, 9999, 9999, 9672, 7829>>,
   <<0, 9999, 9999, 9999, 9836, 3914>>,
   <<0, 9999, 9999, 9999, 9918, 1957>>,
   <<0, 9999, 9999, 9999, 9959, 978>>,
   <<0, 9999, 9999, 9999, 9979, 5489>>,
   <<0, 9999, 9999, 9999, 9989, 7744>>,
   <<0, 9999, 9999, 9999, 9994, 8872>>,
   <<0, 9999, 9999, 9999, 9997, 4436>>,
   <<0, 9999, 9999, 9999, 9998, 7218>>,
   <<0, 9999, 9999, 9999, 9999, 3609>>,
   <<0, 9999, 9999, 9999, 9999, 6804>>,
   <<0, 9999, 9999, 9999, 9999, 8402>>,
   <<0, 9999, 9999, 9999, 9999, 9201>>,
   <<0, 9999, 9999, 9999, 9999, 9600>>,
   <<0, 9999, 9999, 9999, 9999, 9800>>,
   <<0, 9999, 9999, 9999, 9999, 9900>>,
   <<0, 9999, 9999, 9999, 9999, 9950>>,
   <<0, 9999, 9999, 9999, 9999, 9975>>>>

\* a * b, cut after FIX_DIGITS decimals, for a product below 10: tm is what
\* the product has at LIMB^-m, with the carry from below; the limbs at
\* LIMB^-6 and LIMB^-7 only give their carry.
FixMul(a, b) ==
  LET t7 == a[3] * b[6] + a[4] * b[5] + a[5] * b[4] + a[6] * b[3]
      t6 == a[2] * b[6] + a[3] * b[5] + a[4] * b[4] + a[5] * b[3] + a[6] * b[2] + t7 \div LIMB
      t5 == a[1] * b[6] + a[2] * b[5] + a[3] * b[4] + a[4] * b[3] + a[5] * b[2] + a[6] * b[1] + t6 \div LIMB
      t4 == a[1] * b[5] + a[2] * b[4] + a[3] * b[3] + a[4] * b[2] + a[5] * b[1] + t5 \div LIMB
      t3 == a[1] * b[4] + a[2] * b[3] + a[3] * b[2] + a[4] * b[1] + t4 \div LIMB
      t2 == a[1] * b[3] + a[2] * b[2] + a[3] * b[1] + t3 \div LIMB
      t1 == a[1] * b[2] + a[2] * b[1] + t2 \div LIMB
      t0 == a[1] * b[1] + t1 \div LIMB
  IN  <<t0, t1 % LIMB, t2 % LIMB, t3 % LIMB, t4 % LIMB, t5 % LIMB>>

\* The bits j of n that stand for 2^-1 .. 2^-POW_BITS in n * 2^x.
FracBits(n, x) ==
  {j \in 0..(FLT_MANT_DIG - 1) :
     (0 - x - j) \in 1..POW_BITS /\ (n \div Pow2(j)) % 2 = 1}

\* acc times the entries of t for the bits of idx from j down: 10 to the
\* fractional part of n * 2^x.
RECURSIVE LeadStrip(_, _)
RECURSIVE TrailStrip(_, _)
RECURSIVE PowFrac(_, _, _, _, _)
PowFrac(idx, x, t, j, acc) ==
  IF j < 0 \/ acc = <<>> THEN acc
  ELSE IF j \in idx THEN PowFrac(idx, x, t, j - 1, FixMul(acc, t[0 - x - j]))
  ELSE PowFrac(idx, x, t, j - 1, acc)

\* The digits of a fixed-point number.
LimbDigits(l) == <<l \div 1000, (l \div 100) % 10, (l \div 10) % 10, l % 10>>
FixDigits(m) ==
  <<m[1]>> \o LimbDigits(m[2]) \o LimbDigits(m[3]) \o LimbDigits(m[4])
           \o LimbDigits(m[5]) \o LimbDigits(m[6])

\* The digits dig[a ..] without leading zeros, and dig without the zeros
\* at its end, as digits and a power of ten.
LeadStrip(dig, a) ==
  IF a > Len(dig) THEN <<>>
  ELSE IF dig[a] # 0 THEN SubSeq(dig, a, Len(dig))
  ELSE LeadStrip(dig, a + 1)
TrailStrip(dig, b) ==
  IF b = 0 \/ dig[b] # 0 THEN [dig |-> SubSeq(dig, 1, b), e |-> Len(dig) - b]
  ELSE TrailStrip(dig, b - 1)

\* The whole part of n * 2^x for x < 0.
WholePart(n, x) == IF 0 - x < 30 THEN n \div Pow2(0 - x) ELSE 0

\* A float of this x or more with all its bits is 64 or more: 10 to it is
\* beyond the range of float.
POW_TOP == 0 - 17

\* m * 10^q or m * 10^-q as a float; exact only when no factor entered m.
PowFloat(neg, q, m, inexact) ==
  LET d == TrailStrip(FixDigits(m), 1 + FIX_DIGITS)
  IN  MakeFloat(FALSE, LeadStrip(d.dig, 1), d.e + (IF neg THEN 0 - q ELSE q) - FIX_DIGITS,
                inexact)

\* 10 to the float x of the bits idx below 1.
PowBits(x, idx) ==
  PowFloat(x.neg, WholePart(x.n, x.x),
           PowFrac(idx, x.x, IF x.neg THEN POW_NEG ELSE POW_POS, FLT_MANT_DIG - 1, FIX_ONE),
           idx # {})

\* (float) pow(10.0, like)
Pow10f(x) ==
  IF x.k = "nan" THEN FNaN
  ELSE IF x.k = "inf" THEN (IF x.neg THEN FZero(FALSE) ELSE FInf(FALSE))
  ELSE IF x.n = 0 THEN FLT_ONE
  ELSE IF x.x >= POW_TOP THEN (IF x.neg THEN FZero(FALSE) ELSE FInf(FALSE))
  ELSE PowBits(x, FracBits(x.n, x.x))

\* Bits kept below the unit of the larger operand of a sum, and the
\* difference of x beyond which the smaller operand does not count.
GUARD == 2
ADD_REACH == 26

\* hi + lo for positive floats with hi.x >= lo.x.
AddOrdered(hi, lo) ==
  IF hi.x - lo.x > ADD_REACH THEN hi
  ELSE LET d == hi.x - lo.x
           t == lo.n * Pow2(GUARD)
       IN  FRound(FALSE, hi.n * Pow2(GUARD) + t \div Pow2(d), t % Pow2(d) # 0,
                  hi.x - GUARD, FALSE)

\* a + b in float, for operands that are not negative.
FAdd(a, b) ==
  IF a.k = "nan" \/ b.k = "nan" THEN FNaN
  ELSE IF a.k = "inf" \/ b.k = "inf" THEN FInf(FALSE)
  ELSE IF a.n = 0 THEN b
  ELSE IF b.n = 0 THEN a
  ELSE IF a.x >= b.x THEN AddOrdered(a, b)
  ELSE AddOrdered(b, a)

\* Line 246: prob_sum = prob_homo_ref + prob_het + prob_homo_alt
FSum3(a, b, c) == FAdd(FAdd(a, b), c)

\* bits more bits of the quotient q of a division by d with the remainder
\* r; st tells whether a remainder is left.
RECURSIVE DivBits(_, _, _, _)
DivBits(r, d, bits, q) ==
  IF bits = 0 THEN [q |-> q, st |-> r # 0]
  ELSE IF 2 * r >= d THEN DivBits(2 * r - d, d, bits - 1, 2 * q + 1)
  ELSE DivBits(2 * r, d, bits - 1, 2 * q)

\* Bits of a quotient below its unit.
DIV_BITS == 26

\* n and x of a nonzero float with n brought to FLT_MANT_DIG bits.
NormN(f) == f.n * Pow2(FLT_MANT_DIG - BitLen(f.n))
NormX(f) == f.x - (FLT_MANT_DIG - BitLen(f.n))

\* na / nb * 2^(k + DIV_BITS) in float, for na and nb of FLT_MANT_DIG bits.
DivNorm(na, nb, k) ==
  LET c == IF na >= nb THEN DivBits(na - nb, nb, DIV_BITS, 1)
           ELSE DivBits(na, nb, DIV_BITS, 0)
  IN  FRound(FALSE, c.q, c.st, k, FALSE)

\* Lines 247-249: x / prob_sum in float, for operands that are not negative.
FDiv(x, sum) ==
  IF x.k = "nan" \/ sum.k = "nan" THEN FNaN
  ELSE IF sum.k = "inf" THEN (IF x.k = "inf" THEN FNaN ELSE FZero(FALSE))
  ELSE IF x.k = "inf" THEN FInf(FALSE)
  ELSE IF sum.n = 0 THEN (IF x.n = 0 THEN FNaN ELSE FInf(FALSE))
  ELSE IF x.n = 0 THEN FZero(FALSE)
  ELSE DivNorm(NormN(x), NormN(sum), NormX(x) - NormX(sum) - DIV_BITS)

\* Lines 246-249: the renormalization of the three linear values.
Renormalize(p1, p2, p3, prob_sum) ==
  <<FDiv(p1, prob_sum), FDiv(p2, prob_sum), FDiv(p3, prob_sum)>>

\* Lines 231-234: log10 to linear.
ToLinear(like) == <<Pow10f(like[1]), Pow10f(like[2]), Pow10f(like[3])>>

Normalized(pr) == Renormalize(pr[1], pr[2], pr[3], FSum3(pr[1], pr[2], pr[3]))

\* Lines 251-255: the three writes.
ProbStore(p, pr) ==
  [p EXCEPT
     !.geno_probs = WriteAt(WriteAt(WriteAt(p.geno_probs, p.n_geno_probs, pr[1]),
                                    p.n_geno_probs + 1, pr[2]),
                            p.n_geno_probs + 2, pr[3]),
     !.n_geno_probs = p.n_geno_probs + 3]

\* Lines 219-229: the likelihoods after the sscanf call sc: the values
\* read, the uniform triplet for '.', or none (a fatal error).
Likelihoods(inner_tok, sc) ==
  IF sc.n = 3 THEN Ptr(sc.like)
  ELSE IF StrEq(inner_tok, <<".">>)
  THEN Ptr(<<LIKE_MISSING, LIKE_MISSING, LIKE_MISSING>>)
  ELSE NULL

\* Lines 219-255 once the likelihoods are known.  The conversion precedes
\* the capacity check, as in the source; neither affects the other.
ProbConvert(like, expect_geno_probs, p) ==
  IF like = NULL THEN [p EXCEPT !.err = "gl_unparsed"]
  ELSE IF (p.n_geno_probs + 3) > expect_geno_probs
  THEN [p EXCEPT !.err = "more_likelihoods"]
  ELSE ProbStore(p, Normalized(ToLinear(Deref(like))))

\* Lines 215-256: the GL subfield inner_tok of a sample token, if it has one.
ProbSubfield(inner_tok, expect_geno_probs, p) ==
  IF inner_tok = NULL THEN p
  ELSE ProbConvert(Likelihoods(Deref(inner_tok), ScanTriple(Deref(inner_tok))),
                   expect_geno_probs, p)

\* Lines 210-258: one sample token of the tail.
ProbToken(tok, gl_idx, expect_geno_probs, p) ==
  ProbSubfield(InnerTok(util_strncpy(tok, VCF_MAX_FORMAT), gl_idx),
               expect_geno_probs, p)

\* Lines 206-260: the while loop over the sample tail.  r is the result of
\* the strsep call of the loop condition; a fatal error ends the loop.
RECURSIVE ProbLoop(_, _, _, _)
ProbLoop(r, gl_idx, expect_geno_probs, p) ==
  IF r.tok = NULL \/ p.err # "" THEN p
  ELSE ProbLoop(strsep(r.cur, Delim), gl_idx, expect_geno_probs,
                ProbToken(Deref(r.tok), gl_idx, expect_geno_probs, p))

\* Lines 262-265: the final count check.
ProbFinish(p, expect_geno_probs) ==
  IF p.err = "" /\ p.n_geno_probs # expect_geno_probs
  THEN [p EXCEPT !.err = "likelihood_count"]
  ELSE p

\* Lines 195-265 once gl_idx is known.
ProbDecode(info, cur, gl_idx, p0) ==
  IF gl_idx = 0 - 1 THEN [p0 EXCEPT !.err = "no_GL"]
  ELSE ProbFinish(ProbLoop(strsep(cur, Delim), gl_idx, info.n_samples * 3, p0),
                  info.n_samples * 3)

\* Lines 193-265 for every FORMAT, sample count and sample tail of the lines
\* of the model, computed once and kept as an explicit function.
ProbTable ==
  [f \in Formats, n \in 0..MaxSamples, cur \in SampleTails |->
     ProbDecode([n_samples |-> n], cur, get_format_index(f, <<"G", "L">>),
                [err |-> "", n_geno_probs |-> 0, geno_probs |-> <<>>])] @@ <<>>

\* parse_geno_probs(vcf_info, geno_probs, cur).  A call that ProbTable holds
\* is looked up, any other is computed.
parse_geno_probs(info, cur) ==
  IF <<info.format, info.n_samples, cur>> \in DOMAIN ProbTable
  THEN ProbTable[info.format, info.n_samples, cur]
  ELSE ProbDecode(info, cur, get_format_index(info.format, <<"G", "L">>),
                  [err |-> "", n_geno_probs |-> 0, geno_probs |-> <<>>])

-----------------------------------------------------------------------------
(* vcf_read_line *)

\* The nine fixed columns, in the order lines 303-381 read them.
FixedFields ==
  <<"chrom", "pos", "id", "ref", "alt", "qual", "filter", "info", "format">>

\* Lines 334-337 and 348-351: the warning for an allele that was cut.
TruncWarn(w, token, kept) ==
  IF Len(kept) # Len(token) THEN Append(w, "truncated") ELSE w

\* The assignment lines 308-381 make for fixed column k with its token.
\* r is [err, info, warns, cur].
SetField(r, k, token) ==
  CASE k = 1 -> [r EXCEPT !.info.chrom = util_strncpy(token, VCF_MAX_FIELD)]
    [] k = 2 -> [r EXCEPT !.info.pos = util_parse_long(token)]
    [] k = 3 -> [r EXCEPT !.info.id = util_strncpy(token, VCF_MAX_FIELD)]
    [] k = 4 -> [r EXCEPT !.info.ref_len = Len(token),
                          !.info.ref_allele = util_strncpy(token, VCF_MAX_FIELD),
                          !.warns = TruncWarn(r.warns, token,
                                              util_strncpy(token, VCF_MAX_FIELD))]
    [] k = 5 -> [r EXCEPT !.info.alt_len = Len(token),
                          !.info.alt_allele = util_strncpy(token, VCF_MAX_FIELD),
                          !.warns = TruncWarn(r.warns, token,
                                              util_strncpy(token, VCF_MAX_FIELD))]
    [] k = 6 -> [r EXCEPT !.info.qual = util_strncpy(token, VCF_MAX_FIELD)]
    [] k = 7 -> [r EXCEPT !.info.filter = util_strncpy(token, VCF_MAX_FIELD)]
    [] k = 8 -> [r EXCEPT !.info.info = util_strncpy(token, VCF_MAX_FIELD)]
    [] k = 9 -> [r EXCEPT !.info.format = util_strncpy(token, VCF_MAX_FORMAT)]

\* Lines 300-381: the nine strsep calls, each fatal on a NULL token.
\* t is the result of the strsep call for column k.
RECURSIVE ReadFixed(_, _, _)
ReadFixed(r, k, t) ==
  IF t.tok = NULL THEN [r EXCEPT !.err = "too_few_tokens"]
  ELSE IF k = Len(FixedFields)
  THEN [SetField(r, k, Deref(t.tok)) EXCEPT !.cur = t.cur]
  ELSE ReadFixed(SetField(r, k, Deref(t.tok)), k + 1, strsep(t.cur, Delim))

\* What strlen(cur) and strcpy(cur_copy, cur) of lines 393-394 can do when
\* cur is NULL: the process traps, or (page zero readable) a NUL byte is
\* read and the copy is the empty string.
NullReadOutcomes == {"crash", "empty"}

\* The outcome of a call once a decoder has finished with err.
Outcome(err) == IF err = "" THEN "ok" ELSE "fatal"

\* The result of a call before any decoder has run.
\* A result is [status, info, geno_probs, haplotypes, warn_phase, warns].
Undecoded(fx, wp) ==
  [status |-> "ok", info |-> fx.info, geno_probs |-> <<>>, haplotypes |-> <<>>,
   warn_phase |-> wp, warns |-> fx.warns]

\* The result b after parse_geno_probs returned g.
WithProbs(b, g) ==
  [b EXCEPT !.status = Outcome(g.err), !.geno_probs = g.geno_probs]

\* The result b after parse_haplotypes returned h.
WithHaps(b, h) ==
  [b EXCEPT !.status = Outcome(h.err), !.haplotypes = h.haplotypes,
            !.warn_phase = h.warn_phase, !.warns = b.warns \o h.warns]

\* Lines 397-399: parse_haplotypes runs unless parse_geno_probs was fatal.
ThenHaps(g, fx, wp) ==
  IF g.status # "ok" THEN g
  ELSE WithHaps(g, parse_haplotypes(fx.info, fx.cur, wp))

\* Lines 393-399: both buffers, the likelihood decoder on the copy cur_copy.
Both(fx, wp, cur_copy) ==
  ThenHaps(WithProbs(Undecoded(fx, wp), parse_geno_probs(fx.info, cur_copy)), fx, wp)

\* Lines 393-394 when cur is NULL.
BothNull(fx, wp, outcome) ==
  IF outcome = "crash" THEN [Undecoded(fx, wp) EXCEPT !.status = "crash"]
  ELSE Both(fx, wp, Ptr(<<>>))

\* Lines 383-404: the calls of the decoders; the set of results possible.
Decode(fx, wp, gp, hap) ==
  IF gp /\ hap
  THEN IF fx.cur = NULL THEN {BothNull(fx, wp, o) : o \in NullReadOutcomes}
       ELSE {Both(fx, wp, fx.cur)}
  ELSE IF gp THEN {WithProbs(Undecoded(fx, wp), parse_geno_probs(fx.info, fx.cur))}
  ELSE IF hap THEN {WithHaps(Undecoded(fx, wp), parse_haplotypes(fx.info, fx.cur, wp))}
  ELSE {Undecoded(fx, wp)}

\* Lines 300-404 once the fixed columns were read.
AfterFixed(fx, wp, gp, hap) ==
  IF fx.err # "" THEN {[Undecoded(fx, wp) EXCEPT !.status = "fatal"]}
  ELSE Decode(fx, wp, gp, hap)

\* vcf_read_line(vcf_fh, vcf_info, geno_probs, haplotypes) on the line l the
\* line source returns (NULL at end of stream); gp and hap tell which
\* buffers are non-null.  The set of results the call can produce.
vcf_read_line(info, wp, l, gp, hap) ==
  IF l = NULL
  THEN {[status |-> "eof", info |-> info, geno_probs |-> <<>>, haplotypes |-> <<>>,
         warn_phase |-> wp, warns |-> <<>>]}
  ELSE AfterFixed(ReadFixed([err |-> "", info |-> info, warns |-> <<>>, cur |-> NULL],
                            1, strsep(l, Delim)),
                  wp, gp, hap)

\* Range of int.
INT_MAX == 2147483647

\* Values the caller can find as the result of a call that reaches the
\* closing brace of line 405 without a return statement.  The value is
\* indeterminate: whatever the last callee left in the result register,
\* any int (builds return 0, 2, 3, 4, 5, 6 and addresses cut to 32 bits).
IndeterminateRet == (0 - INT_MAX - 1)..INT_MAX

\* The values a call can return, by its outcome: -1 at line 297, none when
\* the process ended, indeterminate when control falls off the end.
ReturnValues(st) ==
  CASE st = "eof" -> {<<0 - 1>>}
    [] st = "ok" -> [1..1 -> IndeterminateRet]
    [] OTHER -> {<<>>}

\* The results of a call that are drawn: none, the ints from -1 to RetHigh,
\* and the two ends of the range of int, which stand for the ints beyond
\* -1 .. RetHigh on their side.
RetHigh == 6
RetDrawn ==
  {<<>>} \cup {<<v>> : v \in ((0 - 1)..RetHigh) \cup {0 - INT_MAX - 1, INT_MAX}}

\* What the variable ret keeps of the result r of a call: nothing for no
\* result, <<v>> for an int v of -1 .. RetHigh, and for any other int the
\* interval <<lo, hi>> of the ints beyond -1 .. RetHigh that holds it.  Every
\* int a call returns has its record.
RetOf(r) ==
  IF r = <<>> THEN r
  ELSE IF r[1] < 0 - 1 THEN <<0 - INT_MAX - 1, 0 - 2>>
  ELSE IF r[1] > RetHigh THEN <<RetHigh + 1, INT_MAX>>
  ELSE r

-----------------------------------------------------------------------------
(* The state machine *)

NoInfo ==
  [n_header_lines |-> 0, n_samples |-> 0, chrom |-> <<>>, pos |-> 0, id |-> <<>>,
   ref_len |-> 0, ref_allele |-> <<>>, alt_len |-> 0, alt_allele |-> <<>>,
   qual |-> <<>>, filter |-> <<>>, info |-> <<>>, format |-> <<>>]

InitWith(heads) ==
  /\ head \in heads
  /\ fpos = 0
  /\ at_eof = FALSE
  /\ hstate = "START"
  /\ vcf_info = NoInfo
  /\ warn_phase = TRUE
  /\ line = NULL
  /\ req = [gp |-> FALSE, hap |-> FALSE]
  /\ status = "none"
  /\ ret = <<>>
  /\ haplotypes = <<>>
  /\ geno_probs = <<>>
  /\ warns = <<>>

\* The state after vcf_read_header returned (or ended the process) with h.
HeaderDone(h) ==
  /\ hstate' = h.st
  /\ fpos' = h.fpos
  /\ at_eof' = h.eof
  /\ vcf_info' = [vcf_info EXCEPT
                    !.n_header_lines = h.n_header_lines,
                    !.n_samples = IF h.st = "DONE" THEN h.n_samples ELSE @]
  /\ warns' = h.warns
  /\ UNCHANGED <<head, warn_phase, line, req, status, ret, haplotypes, geno_probs>>

\* vcf_read_header(vcf_fh, vcf_info): the whole call.
ReadHeader ==
  /\ hstate = "START"
  /\ HeaderDone(HeaderLoop(head, fpos, 0))

\* The state after vcf_read_line, given l, gp and hap, produced res and
\* returned rv; ret keeps RetOf(rv).
LineDone(l, gp, hap, res, rv) ==
  /\ line' = l
  /\ req' = [gp |-> gp, hap |-> hap]
  /\ fpos' = IF l = NULL THEN fpos ELSE fpos + 1
  /\ at_eof' = (l = NULL)
  /\ vcf_info' = res.info
  /\ warn_phase' = res.warn_phase
  /\ status' = res.status
  /\ ret' = RetOf(rv)
  /\ haplotypes' = res.haplotypes
  /\ geno_probs' = res.geno_probs
  /\ warns' = res.warns
  /\ UNCHANGED <<head, hstate>>

\* One call of vcf_read_line after the header was read, on a line of `lines`
\* or at end of stream, with any choice of the two buffers and any drawn
\* result that the call can return; at most max_reads data lines are read.
ReadLine(lines, max_reads) ==
  /\ hstate = "DONE"
  /\ status \notin {"fatal", "crash"}
  /\ fpos - vcf_info.n_header_lines < max_reads
  /\ \E l \in (IF at_eof THEN {NULL} ELSE {NULL} \cup {Ptr(x) : x \in lines}),
        gp \in BOOLEAN, hap \in BOOLEAN :
       \E res \in vcf_read_line(vcf_info, warn_phase, l, gp, hap) :
         \E rv \in {r \in RetDrawn : r \in ReturnValues(res.status)} :
           LineDone(l, gp, hap, res, rv)

\* The state after a decoder that was called on its own returned, or ended
\* the process, with err.
DecoderDone(err, gp, hap) ==
  /\ line' = NULL
  /\ req' = [gp |-> gp, hap |-> hap]
  /\ status' = IF err = "" THEN "parsed" ELSE "fatal"
  /\ ret' = <<>>
  /\ UNCHANGED <<head, fpos, at_eof, hstate, vcf_info>>

HapsDone(h) ==
  /\ DecoderDone(h.err, FALSE, TRUE)
  /\ haplotypes' = h.haplotypes
  /\ geno_probs' = <<>>
  /\ warn_phase' = h.warn_phase
  /\ warns' = h.warns

ProbsDone(g) ==
  /\ DecoderDone(g.err, TRUE, FALSE)
  /\ haplotypes' = <<>>
  /\ geno_probs' = g.geno_probs
  /\ warns' = <<>>
  /\ UNCHANGED warn_phase

\* parse_haplotypes(vcf_info, haplotypes, cur) called by the user of the
\* library on a sample tail, with the FORMAT of the last record read.
ParseHaplotypes(tails) ==
  /\ hstate = "DONE"
  /\ status \notin {"fatal", "crash"}
  /\ \E cur \in tails : HapsDone(parse_haplotypes(vcf_info, cur, warn_phase))

\* parse_geno_probs(vcf_info, geno_probs, cur) called in the same way.
ParseGenoProbs(tails) ==
  /\ hstate = "DONE"
  /\ status \notin {"fatal", "crash"}
  /\ \E cur \in tails : ProbsDone(parse_geno_probs(vcf_info, cur))

Init == InitWith(PlainHeads)
Next ==
  \/ ReadHeader
  \/ ReadLine(DataLines, MaxReads)
  \/ ParseHaplotypes(DirectTails)
  \/ ParseGenoProbs(DirectTails)
Spec == Init /\ [][Next]_vars

\* The header decoder over every head stream of the model, followed by
\* reads of well-formed data lines.
InitHeader == InitWith(HeadStreams)
NextHeader == ReadHeader \/ ReadLine(FewLines, MaxHeaderReads)
SpecHeader == InitHeader /\ [][NextHeader]_vars

-----------------------------------------------------------------------------
(* Reading the inputs back: what a line holds, by position of its delimiters *)

\* The fields of s between the characters of seps, empty fields included.
RECURSIVE Split(_, _)
Split(s, seps) ==
  IF \A i \in 1..Len(s) : s[i] \notin seps THEN <<s>>
  ELSE LET i == CHOOSE i \in 1..Len(s) :
                  s[i] \in seps /\ \A j \in 1..(i - 1) : s[j] \notin seps
       IN <<SubSeq(s, 1, i - 1)>> \o Split(SubSeq(s, i + 1, Len(s)), seps)

\* Number of tokens of a line: one more than its delimiter characters.
TokCount(s) == Cardinality({i \in 1..Len(s) : s[i] \in Delim}) + 1

IsMeta(l) == Len(l) >= 2 /\ l[1] = "#" /\ l[2] = "#"
IsColumn(l) == Len(l) >= 6 /\ SubSeq(l, 1, 6) = <<"#", "C", "H", "R", "O", "M">>

\* Number of leading '##' lines of a head stream.
LeadingMeta(h) ==
  CHOOSE k \in 0..Len(h) :
    /\ \A i \in 1..k : IsMeta(h[i])
    /\ k = Len(h) \/ ~IsMeta(h[k + 1])

\* The '#CHROM' line l with its first nine tokens given the expected names.
Renamed(l) ==
  LET t == Split(l, Delim)
      sep == IF \E i \in 1..Len(l) : l[i] = SPC THEN SPC ELSE TAB
  IN Join([i \in 1..Len(t) |-> IF i <= n_fix_header THEN vcf_fix_headers[i] ELSE t[i]],
          sep)

\* Number of the first nine tokens of l that differ from the expected name.
Mismatches(l) ==
  LET t == Split(l, Delim)
  IN Cardinality({i \in 1..Min(Len(t), n_fix_header) : t[i] # vcf_fix_headers[i]})

\* The data line the last call read has its nine fixed columns.
HasFixed == line # NULL /\ Len(Split(Deref(line), Delim)) >= n_fix_header

\* Its FORMAT column and its sample tail, token by token.
FormatOf == Split(Deref(line), Delim)[n_fix_header]
TailTokens ==
  SubSeq(Split(Deref(line), Delim), n_fix_header + 1, Len(Split(Deref(line), Delim)))

\* Zero-based index of label in FORMAT; -1 if absent.
IndexIn(label) ==
  LET f == Split(FormatOf, Colon)
  IN IF \E i \in 1..Len(f) : f[i] = label
     THEN (CHOOSE i \in 1..Len(f) : f[i] = label /\ \A j \in 1..(i - 1) : f[j] # label) - 1
     ELSE 0 - 1

\* Whether token tok has a subfield at index idx, and that subfield.
HasSubfield(tok, idx) == idx >= 0 /\ Len(Split(tok, Colon)) > idx
Subfield(tok, idx) == Split(tok, Colon)[idx + 1]

\* The subfields at index idx of the tail tokens that have one, in order.
RECURSIVE Subfields(_, _)
Subfields(toks, idx) ==
  IF toks = <<>> THEN <<>>
  ELSE (IF HasSubfield(toks[1], idx) THEN <<Subfield(toks[1], idx)>> ELSE <<>>)
       \o Subfields(Tail(toks), idx)

\* 'a|b' or 'a/b' with a and b in {0, 1}.
IsBinaryPair(g) ==
  Len(g) = 3 /\ g[1] \in {"0", "1"} /\ g[2] \in {"|", "/"} /\ g[3] \in {"0", "1"}

\* The subfield matches 'int|int' or 'int/int'.
MatchesGT(g) == ScanPair(g, "|", 0, 0).n = 2 \/ ScanPair(g, "/", 0, 0).n = 2
\* The two integers of a subfield that matches.
AllelesOf(g) ==
  IF ScanPair(g, "|", 0, 0).n = 2 THEN ScanPair(g, "|", 0, 0)
  ELSE ScanPair(g, "/", 0, 0)

\* The last call decoded haplotypes / probabilities and finished.
HapDecoded == status = "ok" /\ req.hap
ProbDecoded == status = "ok" /\ req.gp

Pair(i) == <<haplotypes[2 * i - 1], haplotypes[2 * i]>>
Triple(i) == <<geno_probs[3 * i - 2], geno_probs[3 * i - 1], geno_probs[3 * i]>>

\* The float f is a number of [0, 1].
InUnit(f) ==
  /\ f.k = "num"
  /\ \/ f.n = 0
     \/ ~f.neg /\ f.x <= 0 - FLT_MANT_DIG
     \/ ~f.neg /\ f.n = Pow2(FLT_MANT_DIG - 1) /\ f.x = 1 - FLT_MANT_DIG

\* A float of [0, 1] in units of 2^-28, rounded down.
Fixed(f) ==
  IF f.x >= 0 - 28 THEN f.n * Pow2(f.x + 28)
  ELSE IF f.x < 0 - 58 THEN 0
  ELSE f.n \div Pow2(0 - 28 - f.x)

\* Three floats of [0, 1] sum to 1 within 2^-20.
SumsToOne(t) ==
  /\ Fixed(t[1]) + Fixed(t[2]) + Fixed(t[3]) >= Pow2(28) - Pow2(8)
  /\ Fixed(t[1]) + Fixed(t[2]) + Fixed(t[3]) <= Pow2(28) + Pow2(8)

-----------------------------------------------------------------------------
(* The claims *)

\* C1: vcf_read_line returns -1 at end of stream and 0 for every data line
\* decoded without a fatal error, whichever buffers were requested.
C1_ReturnCodes ==
  /\ status = "eof" => ret = <<0 - 1>>
  /\ status = "ok" => ret = <<0>>

\* C2: decoding the same data line twice in one run, with the same buffers,
\* yields the same VariantRecord fields and the same haplotype and
\* probability entries: the result does not depend on earlier records.
C2_Idempotent ==
  [][(/\ line # NULL /\ line' = line /\ fpos' = fpos + 1
      /\ status = "ok" /\ status' = "ok" /\ req' = req)
     => (/\ vcf_info' = vcf_info
         /\ haplotypes' = haplotypes
         /\ geno_probs' = geno_probs)]_vars

\* C3: for every sample of every record, a GT subfield 'a/b' or 'a|b' with
\* a, b in {0,1} is decoded to the pair (a,b), before and after the one-shot
\* unphased notice.  Stated for records whose every tail token has a GT
\* subfield.
C3_UnphasedDecoded ==
  (HapDecoded /\ \A i \in 1..Len(TailTokens) :
                   HasSubfield(TailTokens[i], IndexIn(<<"G", "T">>)))
  => \A i \in 1..Len(TailTokens) :
       LET g == Subfield(TailTokens[i], IndexIn(<<"G", "T">>))
       IN IsBinaryPair(g) => Pair(i) = <<DigitVal(g[1]), DigitVal(g[3])>>

\* C4: after a successful haplotype decode every entry is 0, 1 or -1, a
\* sample whose GT has an allele value outside {0,1} has both entries -1,
\* and no sample has exactly one entry equal to -1.
C4_BothMissing ==
  HapDecoded =>
    /\ \A i \in 1..Len(haplotypes) : haplotypes[i] \in {0, 1, 0 - 1}
    /\ \A i \in 1..(Len(haplotypes) \div 2) :
         (Pair(i)[1] = 0 - 1) <=> (Pair(i)[2] = 0 - 1)
    /\ LET gs == Subfields(TailTokens, IndexIn(<<"G", "T">>))
       IN \A i \in 1..Len(gs) :
            (/\ MatchesGT(gs[i])
             /\ \/ AllelesOf(gs[i]).hap1 \notin {0, 1}
                \/ AllelesOf(gs[i]).hap2 \notin {0, 1})
            => Pair(i) = <<0 - 1, 0 - 1>>

\* C5: parse_haplotypes finishes without a fatal error only when the tail
\* holds exactly n_samples tokens; slots 2i, 2i+1 then hold the call of the
\* i-th token (here: of a phased 'a|b'), and no write lands at an index
\* >= 2*n_samples.
C5_ExactTokens ==
  /\ req.hap /\ vcf_info.n_samples >= 0 => Len(haplotypes) <= 2 * vcf_info.n_samples
  /\ HapDecoded =>
       /\ Len(TailTokens) = vcf_info.n_samples
       /\ \A i \in 1..Len(TailTokens) :
            (/\ HasSubfield(TailTokens[i], IndexIn(<<"G", "T">>))
             /\ IsBinaryPair(Subfield(TailTokens[i], IndexIn(<<"G", "T">>)))
             /\ Subfield(TailTokens[i], IndexIn(<<"G", "T">>))[2] = "|")
            => Pair(i) = <<DigitVal(Subfield(TailTokens[i], IndexIn(<<"G", "T">>))[1]),
                           DigitVal(Subfield(TailTokens[i], IndexIn(<<"G", "T">>))[3])>>

\* C6: after vcf_read_header succeeds on k '##' lines followed by a '#CHROM'
\* line of t tokens, n_samples = t - 9 and n_header_lines = k + 1, the
\* '#CHROM' line is the last line consumed (data lines are read from line
\* k + 2 on),
\* and the decoders fill 2 * (t - 9) and 3 * (t - 9) entries.
C6_HeaderCounts ==
  hstate = "DONE" =>
    LET k == LeadingMeta(head)
        t == TokCount(head[k + 1])
    IN /\ vcf_info.n_samples = t - 9
       /\ vcf_info.n_header_lines = k + 1
       /\ status = "none" => (fpos = k + 1 /\ ~at_eof)
       /\ (status # "none" /\ line # NULL) => fpos >= k + 2
       /\ HapDecoded => Len(haplotypes) = 2 * (t - 9)
       /\ ProbDecoded => Len(geno_probs) = 3 * (t - 9)

C6_Witness ==
  /\ hstate = "DONE" /\ vcf_info.n_samples = 2 /\ vcf_info.n_header_lines = 3
  /\ HapDecoded /\ ProbDecoded /\ Len(haplotypes) = 4 /\ Len(geno_probs) = 6

\* C8: header decoding is fatal exactly when the stream ends before a
\* '#CHROM' line or a line starting with neither '##' nor '#CHROM' comes
\* first; wrong names among the first nine tokens only warn (once per wrong
\* name) and leave both counts as for the header with the right names.
C8_HeaderFatal ==
  hstate # "START" =>
    LET k == LeadingMeta(head)
    IN /\ hstate = "FATAL" <=> (k = Len(head) \/ ~IsColumn(head[k + 1]))
       /\ hstate = "DONE" =>
            LET good == HeaderLoop([head EXCEPT ![k + 1] = Renamed(head[k + 1])], 0, 0)
            IN /\ good.st = "DONE"
               /\ good.n_samples = vcf_info.n_samples
               /\ good.n_header_lines = vcf_info.n_header_lines
       /\ (hstate = "DONE" /\ status = "none") =>
            /\ Len(warns) = Mismatches(head[k + 1])
            /\ \A i \in 1..Len(warns) : warns[i] = "fix_header_mismatch"

C8_Witness ==
  /\ hstate = "DONE" /\ status = "none" /\ Len(warns) = 1
  /\ vcf_info.n_samples = 2 /\ vcf_info.n_header_lines = 2

\* C7: for every sample of a record decoded with probabilities requested the
\* three values written are each in [0,1] and sum to 1, for every parseable
\* log10 triplet and for '.'.
C7_Normalized ==
  ProbDecoded =>
    \A i \in 1..(Len(geno_probs) \div 3) :
      /\ \A j \in 1..3 : InUnit(Triple(i)[j])
      /\ SumsToOne(Triple(i))

\* C9: a GT subfield matching neither 'int|int' nor 'int/int' is never
\* fatal: both alleles of that sample become -1, a warning is emitted and the
\* other samples are still decoded; a GL subfield that is not three
\* comma-separated floats is fatal unless it is '.', which yields the
\* uniform triplet.
C9_Asymmetric ==
  /\ (/\ HasFixed /\ req.hap /\ ~req.gp /\ status \in {"ok", "fatal"}
      /\ IndexIn(<<"G", "T">>) >= 0
      /\ Len(Subfields(TailTokens, IndexIn(<<"G", "T">>))) = vcf_info.n_samples)
     => /\ status = "ok"
        /\ Len(haplotypes) = 2 * vcf_info.n_samples
        /\ LET gs == Subfields(TailTokens, IndexIn(<<"G", "T">>))
           IN \A i \in 1..Len(gs) :
                ~MatchesGT(gs[i]) =>
                  /\ Pair(i) = <<0 - 1, 0 - 1>>
                  /\ \E w \in 1..Len(warns) : warns[w] = "gt_unparsed"
  /\ (/\ HasFixed /\ req.gp /\ status \in {"ok", "fatal"}
      /\ LET ls == Subfields(TailTokens, IndexIn(<<"G", "L">>))
         IN \E i \in 1..Len(ls) : ScanTriple(ls[i]).n # 3 /\ ls[i] # <<".">>)
     => status = "fatal"
  /\ (HasFixed /\ ProbDecoded)
     => LET ls == Subfields(TailTokens, IndexIn(<<"G", "L">>))
        IN \A i \in 1..Len(ls) :
             ls[i] = <<".">> =>
               /\ \A j \in 1..3 : InUnit(Triple(i)[j]) /\ Triple(i)[j] = Triple(i)[1]
               /\ SumsToOne(Triple(i))

C9_Witness ==
  /\ status = "ok" /\ req.hap /\ ~req.gp /\ vcf_info.n_samples = 2
  /\ line = Ptr(DataLine(F_GT, <<GDD, G11>>))
  /\ haplotypes = <<0 - 1, 0 - 1, 1, 1>>
  /\ warns = <<"gt_unparsed">>

\* C10: with both buffers requested, vcf_read_line fails or succeeds exactly
\* as the two single-buffer decodes of the same tail would, and on success
\* writes the same haplotype and probability values, also for a line with
\* nine tokens and no sample tail under a header declaring 0 samples.
C10_BothAsSingles ==
  [][(/\ fpos' = fpos + 1 /\ req'.gp /\ req'.hap
      /\ Len(Split(Deref(line'), Delim)) >= n_fix_header)
     => LET fx == ReadFixed([err |-> "", info |-> vcf_info, warns |-> <<>>, cur |-> NULL],
                            1, strsep(line', Delim))
            g == parse_geno_probs(fx.info, fx.cur)
            h == parse_haplotypes(fx.info, fx.cur, warn_phase)
        IN /\ (status' = "ok") <=> (g.err = "" /\ h.err = "")
           /\ status' = "ok" => /\ geno_probs' = g.geno_probs
                                /\ haplotypes' = h.haplotypes]_vars

====
